---- MODULE Spec2Model ----
(***************************************************************************)
(* Decision Coin: the flip lifecycle of src/App.js (flipCoin, resetResult, *)
(* toggleMode, the label handlers, the accelerometer listener), the        *)
(* history storage of src/unnamed/part_001 (utils/storage) and the         *)
(* HistoryPanel of src/unnamed/part_000.                                   *)
(*                                                                         *)
(* JavaScript strings are sequences of one-character strings, so that      *)
(* trim() and substring() are computed.  Every asynchronous function is    *)
(* cut at its awaits: one action per stretch of synchronous code.          *)
(* React state set by a handler is visible to the handlers of the next     *)
(* event (the render that follows a state update is part of the step).     *)
(***************************************************************************)
EXTENDS Integers, Sequences, FiniteSets, TLC

\* ------------------------------------------------------------------ bounds

\* flipCoin calls that run to their commit or to the fail-safe in one run
MaxFlips == 1
\* calls in flight at once
MaxInFlight == 2
\* rejected storage calls and unexpected exceptions in one run
MaxFaults == 1
\* saveFlipToHistory calls of the storage driver (StorageSpec) in one run
MaxAppends == 11
\* windows of TickMs milliseconds the wall clock runs through in one run
MaxTicks == 1

\* -------------------------------------------------- constants of the program

MAX_HISTORY_ENTRIES == 10
MAX_LABEL_LENGTH == 150

\* ---------------------------------------------------------------- strings

NULL == "null"

HEADS == <<"H", "e", "a", "d", "s">>
TAILS == <<"T", "a", "i", "l", "s">>
SIDE_A == <<"A">>
SIDE_B == <<"B">>
READY == <<"R", "e", "a", "d", "y">>

\* The characters of a value of `side` ('Heads', 'Tails', 'A', 'B').
Chars(s) ==
  CASE s = "Heads" -> HEADS
    [] s = "Tails" -> TAILS
    [] s = "A" -> SIDE_A
    [] s = "B" -> SIDE_B
    [] OTHER -> <<>>

WhiteSpace == {" ", "\t", "\n"}

RECURSIVE TrimStart(_)
TrimStart(s) ==
  IF s = <<>> THEN <<>>
  ELSE IF Head(s) \in WhiteSpace THEN TrimStart(Tail(s))
  ELSE s

RECURSIVE TrimEnd(_)
TrimEnd(s) ==
  IF s = <<>> THEN <<>>
  ELSE IF s[Len(s)] \in WhiteSpace THEN TrimEnd(SubSeq(s, 1, Len(s) - 1))
  ELSE s

\* String.prototype.trim
Trim(s) == TrimEnd(TrimStart(s))

\* text.substring(0, n).trim(): the cut text, trimmed at edit time
Substring0Trimmed(s, n) == Trim(IF Len(s) <= n THEN s ELSE SubSeq(s, 1, n))

\* text.substring(0, n)
Substring0(s, n) == IF Len(s) <= n THEN s ELSE SubSeq(s, 1, n)

\* array.slice(0, n)
Slice0(a, n) == IF Len(a) <= n THEN a ELSE SubSeq(a, 1, n)

\* `label && label.trim()` as a condition
Truthy(s) == s # <<>> /\ Trim(s) # <<>>

\* ------------------------------------------------------------------ state

VARIABLES
  side,               \* useState(null): NULL, "Heads", "Tails", "A", "B"
  isFlipping,         \* useState(false)
  isCustomMode,       \* useState(false)
  customSideA,        \* useState('')
  customSideB,        \* useState('')
  flipInProgressRef,  \* useRef(false)
  inv,                \* the flipCoin / saveFlipToHistory calls in flight
  callsLeft,          \* how many more calls the run lets end (the bound)
  faultsLeft,         \* how many more failures the run suffers (the bound)
  storage,            \* AsyncStorage's value under HISTORY_KEY
  historyVisible,     \* useState(false)
  panelHistory,       \* HistoryPanel: useState([])
  isLoading,          \* HistoryPanel: useState(true)
  loadPc,             \* HistoryPanel.loadHistory: "idle" or "get"
  clearPc,            \* HistoryPanel.handleClearHistory: "idle" or "remove"
  isMounted,          \* the effect's isMounted
  setupPc,            \* setupShakeDetection: "check", "subscribed", "off"
  prevYRef,           \* useRef(0)
  lastFlickTimeRef,   \* useRef(0)
  lastShakeTimeRef,   \* useRef(0)
  shakeTimeoutRef,    \* useRef(null): "null", "pending", "fired", "cleared"
  now,                \* Date.now()
  lastCall            \* the handler the last step called, if its guard refused

appVars == <<side, isFlipping, isCustomMode, customSideA, customSideB,
             flipInProgressRef>>
panelVars == <<historyVisible, panelHistory, isLoading, loadPc, clearPc>>
motionVars == <<isMounted, setupPc, prevYRef, lastFlickTimeRef,
                lastShakeTimeRef, shakeTimeoutRef>>
vars == <<appVars, inv, callsLeft, faultsLeft, storage, panelVars, motionVars,
          now, lastCall>>

\* ---------------------------------------------------------------- storage

\* What the slot holds: nothing (never written or removed), a string that is
\* not JSON, JSON that is not an array, or the JSON of an array of entries.
NoItem == [kind |-> "null", val |-> <<>>]
InvalidJson == [kind |-> "invalid", val |-> <<>>]
NonArrayJson == [kind |-> "nonarray", val |-> <<>>]

\* JSON.stringify of an array of {side, timestamp} entries
JSONStringify(a) == [kind |-> "array", val |-> a]

\* JSON.parse: throws on a string that is not JSON
JSONParse(item) ==
  CASE item.kind = "invalid" -> [threw |-> TRUE, isArray |-> FALSE, val |-> <<>>]
    [] item.kind = "nonarray" -> [threw |-> FALSE, isArray |-> FALSE, val |-> <<>>]
    [] OTHER -> [threw |-> FALSE, isArray |-> TRUE, val |-> item.val]

\* AsyncStorage.getItem: the promise rejects, or resolves with the slot
GetItem(rejected) == [rejected |-> rejected, item |-> storage]

\* The try block of getHistory: what it returns, or that it threw.
GetHistoryTry(got) ==
  IF got.rejected THEN [threw |-> TRUE, value |-> <<>>]
  ELSE IF got.item.kind = "null" THEN [threw |-> FALSE, value |-> <<>>]
  ELSE LET parsed == JSONParse(got.item) IN
    IF parsed.threw THEN [threw |-> TRUE, value |-> <<>>]
    ELSE IF ~parsed.isArray THEN [threw |-> FALSE, value |-> <<>>]
    ELSE [threw |-> FALSE, value |-> parsed.val]

\* getHistory with its try block alone: a rejection or a parse error leaves it.
GetHistoryNoCatch(got) == GetHistoryTry(got)

\* getHistory: the catch returns []
GetHistory(got) ==
  LET r == GetHistoryTry(got) IN
  IF r.threw THEN [threw |-> FALSE, value |-> <<>>] ELSE r

\* saveFlipToHistory's guard: !side || typeof side !== 'string'
InvalidSide(label) == label = <<>>

\* saveFlipToHistory: the entry, dateNow being what Date.now() returns
Entry(label, dateNow) == [side |-> Trim(label), timestamp |-> dateNow]

\* [entry, ...currentHistory] written back as it is, without the slice
UntrimmedHistory(entry, currentHistory) == <<entry>> \o currentHistory

\* [...currentHistory, entry].slice(0, MAX_HISTORY_ENTRIES): the entry put last
AppendedHistory(entry, currentHistory) ==
  Slice0(currentHistory \o <<entry>>, MAX_HISTORY_ENTRIES)

\* saveFlipToHistory: [entry, ...currentHistory].slice(0, MAX_HISTORY_ENTRIES)
TrimmedHistory(entry, currentHistory) ==
  Slice0(<<entry>> \o currentHistory, MAX_HISTORY_ENTRIES)

\* A call that the run counts comes to its end.
CallEnds == callsLeft' = IF callsLeft > 0 THEN callsLeft - 1 ELSE 0

\* A promise of the storage rejects, or an exception nobody expects is
\* thrown, while the run has failures left.
Fault(failed) ==
  /\ failed => faultsLeft > 0
  /\ faultsLeft' = IF failed THEN faultsLeft - 1 ELSE faultsLeft

\* ------------------------------------------------- flipCoin (src/App.js)

Slots == 1..MaxInFlight

NoEntry == [side |-> <<>>, timestamp |-> 0]

\* Milliseconds: flipCoin's first delay, and FLIP_ANIMATION_DURATION.
PREROLL_MS == 100
FLIP_ANIMATION_DURATION == 3200

\* A slot no call occupies.  startedAt is Date.now() when flipCoin was
\* called, due the time the pending setTimeout of the call is to fire.
Free ==
  [pc |-> "free", caller |-> "none", isCustomMode |-> FALSE,
   customSideA |-> <<>>, customSideB |-> <<>>, result |-> NULL,
   entry |-> NoEntry, read |-> "none", currentHistory |-> <<>>,
   saved |-> "none", startedAt |-> 0, due |-> 0]

FreeSlots == {i \in Slots : inv[i].pc = "free"}
NewSlot == CHOOSE i \in FreeSlots : \A j \in FreeSlots : i <= j

\* The state a handler created by a render reads through its closure.
\* The handlers of the surface are those of the latest render.
LatestRender ==
  [isFlipping |-> isFlipping, isCustomMode |-> isCustomMode,
   customSideA |-> customSideA, customSideB |-> customSideB]

\* The effect runs once (deps []): its listener and its timer callback keep
\* the flipCoin and resetResult of the first render.
FirstRender ==
  [isFlipping |-> FALSE, isCustomMode |-> FALSE,
   customSideA |-> <<>>, customSideB |-> <<>>]

\* What lastCall records: nothing, or the handler whose guard returned early.
NoCall == "none"
Refused(handler) == handler

\* flipCoin's guard: flipInProgressRef.current || isFlipping
FlipGuard(c) == flipInProgressRef \/ c.isFlipping

\* flipCoin guarding itself with the React state alone: the line
\* flipInProgressRef.current = true is left out.
FlipCoinStateOnly(c) ==
  IF FlipGuard(c)
  THEN /\ lastCall' = Refused("flipCoin")
       /\ UNCHANGED <<isFlipping, flipInProgressRef, inv, callsLeft,
                      faultsLeft>>
  ELSE /\ callsLeft > 0
       /\ FreeSlots # {}
       /\ isFlipping' = TRUE
       /\ inv' = [inv EXCEPT ![NewSlot] =
                    [Free EXCEPT !.pc = "haptic", !.caller = "flipCoin",
                                 !.startedAt = now,
                                 !.isCustomMode = c.isCustomMode,
                                 !.customSideA = c.customSideA,
                                 !.customSideB = c.customSideB]]
       /\ lastCall' = NoCall
       /\ UNCHANGED <<flipInProgressRef, callsLeft, faultsLeft>>

\* flipCoin up to its first await, called with the closure c: what it does
\* to the flags, the calls in flight and the call record.
FlipCoin(c) ==
  IF FlipGuard(c)
  THEN /\ lastCall' = Refused("flipCoin")
       /\ UNCHANGED <<isFlipping, flipInProgressRef, inv, callsLeft,
                      faultsLeft>>
  ELSE /\ callsLeft > 0
       /\ FreeSlots # {}
       /\ flipInProgressRef' = TRUE
       /\ isFlipping' = TRUE
       /\ inv' = [inv EXCEPT ![NewSlot] =
                    [Free EXCEPT !.pc = "haptic", !.caller = "flipCoin",
                                 !.startedAt = now,
                                 !.isCustomMode = c.isCustomMode,
                                 !.customSideA = c.customSideA,
                                 !.customSideB = c.customSideB]]
       /\ lastCall' = NoCall
       /\ UNCHANGED <<callsLeft, faultsLeft>>

\* The "Flip Coin" button: onPress={flipCoin}
TapFlip ==
  /\ isMounted
  /\ FlipCoin(LatestRender)
  /\ UNCHANGED <<side, isCustomMode, customSideA, customSideB, storage,
                 panelVars, motionVars, now>>

\* Coin's pan gesture: velocityY < -500 && !isFlipping && onFlipStart
PanVelocities == {-600, -500}
PanFlip(velocityY) ==
  /\ isMounted
  /\ velocityY < -500
  /\ ~isFlipping
  /\ FlipCoin(LatestRender)
  /\ UNCHANGED <<side, isCustomMode, customSideA, customSideB, storage,
                 panelVars, motionVars, now>>

\* The impact cue awaited outside any try of its own: its rejection goes to
\* the outer catch, which ends the flip.
FlipHapticSettledAborts(i, ok) ==
  /\ inv[i].pc = "haptic"
  /\ IF ok
     THEN /\ inv' = [inv EXCEPT ![i].pc = "preroll",
                                ![i].due = now + PREROLL_MS]
          /\ UNCHANGED <<isFlipping, flipInProgressRef, callsLeft>>
     ELSE /\ inv' = [inv EXCEPT ![i] = Free]
          /\ isFlipping' = FALSE
          /\ flipInProgressRef' = FALSE
          /\ CallEnds
  /\ lastCall' = NoCall
  /\ UNCHANGED <<side, isCustomMode, customSideA, customSideB, faultsLeft,
                 storage, panelVars, motionVars, now>>

\* await Haptics.impactAsync(Medium) settles; a rejection is caught and
\* ignored.  Then the 100 ms timer is set.
FlipHapticSettled(i, ok) ==
  /\ inv[i].pc = "haptic"
  /\ inv' = [inv EXCEPT ![i].pc = "preroll",
                        ![i].due = now + PREROLL_MS]
  /\ lastCall' = NoCall
  /\ UNCHANGED <<appVars, callsLeft, faultsLeft, storage, panelVars,
                 motionVars, now>>

\* The draw with the test of the mode inverted: if (!isCustomMode)
DrawResultInverted(c, low) ==
  IF ~c.isCustomMode
  THEN IF low THEN "A" ELSE "B"
  ELSE IF low THEN "Heads" ELSE "Tails"

\* The draw with a side that has no label giving way to the other side.
DrawResultByLabel(c, low) ==
  IF c.isCustomMode
  THEN LET sideA == IF Truthy(c.customSideA) THEN "A" ELSE "B"
           sideB == IF Truthy(c.customSideB) THEN "B" ELSE "A"
       IN IF low THEN sideA ELSE sideB
  ELSE IF low THEN "Heads" ELSE "Tails"

\* The result flipCoin determines from Math.random() < 0.5.
DrawResult(c, low) ==
  IF c.isCustomMode
  THEN LET sideA == IF Truthy(c.customSideA) THEN "A" ELSE "A"
           sideB == IF Truthy(c.customSideB) THEN "B" ELSE "B"
       IN IF low THEN sideA ELSE sideB
  ELSE IF low THEN "Heads" ELSE "Tails"

\* The draw with setSide(result) right after it, before the animation wait
FlipPrerollElapsedShowsResult(i, low) ==
  /\ inv[i].pc = "preroll"
  /\ inv' = [inv EXCEPT ![i].pc = "anim",
                        ![i].due = now + (FLIP_ANIMATION_DURATION - PREROLL_MS),
                        ![i].result = DrawResult(inv[i], low)]
  /\ side' = DrawResult(inv[i], low)
  /\ lastCall' = NoCall
  /\ UNCHANGED <<isFlipping, isCustomMode, customSideA, customSideB,
                 flipInProgressRef, callsLeft, faultsLeft, storage, panelVars,
                 motionVars, now>>

\* The 100 ms timer fires: the result is drawn, the 3100 ms timer is set.
FlipPrerollElapsed(i, low) ==
  /\ inv[i].pc = "preroll"
  /\ inv' = [inv EXCEPT ![i].pc = "anim",
                        ![i].due = now + (FLIP_ANIMATION_DURATION - PREROLL_MS),
                        ![i].result = DrawResult(inv[i], low)]
  /\ lastCall' = NoCall
  /\ UNCHANGED <<appVars, callsLeft, faultsLeft, storage, panelVars,
                 motionVars, now>>

\* flipCoin's historyLabel
HistoryLabel(result, a, b) ==
  IF result = "A" /\ Truthy(a) THEN Trim(a)
  ELSE IF result = "B" /\ Truthy(b) THEN Trim(b)
  ELSE Chars(result)

\* saveFlipToHistory up to its first await (getHistory's getItem): the record
\* of the call once it is suspended, or once it has returned false.
SaveCall(r, label, dateNow) ==
  IF InvalidSide(label)
  THEN [r EXCEPT !.saved = "false", !.pc = "returned"]
  ELSE [r EXCEPT !.entry = Entry(label, dateNow), !.pc = "saveGet"]

\* What flipCoin does once saveFlipToHistory has returned: it requests the
\* success cue and awaits it.
AfterSave(r) ==
  IF r.pc = "returned" /\ r.caller = "flipCoin" THEN [r EXCEPT !.pc = "notify"] ELSE r

\* The commit without its setIsFlipping(false)
FlipAnimationElapsedKeepsState(i) ==
  /\ inv[i].pc = "anim"
  /\ side' = inv[i].result
  /\ flipInProgressRef' = FALSE
  /\ inv' = [inv EXCEPT ![i] =
       AfterSave(SaveCall(inv[i], HistoryLabel(inv[i].result,
                                               inv[i].customSideA,
                                               inv[i].customSideB), now))]
  /\ CallEnds
  /\ lastCall' = NoCall
  /\ UNCHANGED <<isFlipping, isCustomMode, customSideA, customSideB,
                 faultsLeft, storage, panelVars, motionVars, now>>

\* The 3100 ms timer fires: the commit, then the call of saveFlipToHistory.
FlipAnimationElapsed(i) ==
  /\ inv[i].pc = "anim"
  /\ side' = inv[i].result
  /\ isFlipping' = FALSE
  /\ flipInProgressRef' = FALSE
  /\ inv' = [inv EXCEPT ![i] =
       AfterSave(SaveCall(inv[i], HistoryLabel(inv[i].result,
                                               inv[i].customSideA,
                                               inv[i].customSideB), now))]
  /\ CallEnds
  /\ lastCall' = NoCall
  /\ UNCHANGED <<isCustomMode, customSideA, customSideB, faultsLeft, storage,
                 panelVars, motionVars, now>>

\* The outer catch with setIsFlipping(false) alone: the ref is not released.
FlipFailSafeKeepsRef(i) ==
  /\ inv[i].pc \in {"haptic", "preroll", "anim"}
  /\ isFlipping' = FALSE
  /\ inv' = [inv EXCEPT ![i] = Free]
  /\ Fault(TRUE)
  /\ CallEnds
  /\ lastCall' = NoCall
  /\ UNCHANGED <<side, isCustomMode, customSideA, customSideB,
                 flipInProgressRef, storage, panelVars, motionVars, now>>

\* An unexpected exception between line 74 and line 104: the outer catch.
FlipFailSafe(i) ==
  /\ inv[i].pc \in {"haptic", "preroll", "anim"}
  /\ isFlipping' = FALSE
  /\ flipInProgressRef' = FALSE
  /\ inv' = [inv EXCEPT ![i] = Free]
  /\ Fault(TRUE)
  /\ CallEnds
  /\ lastCall' = NoCall
  /\ UNCHANGED <<side, isCustomMode, customSideA, customSideB, storage,
                 panelVars, motionVars, now>>

\* saveFlipToHistory: await getHistory() returns (or throws into the catch);
\* then the trimmed history is computed and setItem is called.
SaveGet(i, rejected) ==
  /\ inv[i].pc = "saveGet"
  /\ LET got == GetItem(rejected)
         h == GetHistory(got)
     IN inv' = [inv EXCEPT ![i] =
          IF h.threw
          THEN AfterSave([inv[i] EXCEPT !.saved = "false", !.pc = "returned"])
          ELSE [inv[i] EXCEPT !.pc = "saveSet",
                  !.read = IF rejected THEN "rejected" ELSE got.item.kind,
                  !.currentHistory = h.value]]
  /\ Fault(rejected)
  /\ lastCall' = NoCall
  /\ UNCHANGED <<appVars, callsLeft, storage, panelVars, motionVars, now>>

\* saveFlipToHistory: AsyncStorage.setItem settles; a rejection is caught
\* and false is returned.
SaveSet(i, rejected) ==
  /\ inv[i].pc = "saveSet"
  /\ storage' =
       IF rejected THEN storage
       ELSE JSONStringify(TrimmedHistory(inv[i].entry, inv[i].currentHistory))
  /\ inv' = [inv EXCEPT ![i] =
       AfterSave([inv[i] EXCEPT !.pc = "returned",
                    !.saved = IF rejected THEN "false" ELSE "true"])]
  /\ Fault(rejected)
  /\ lastCall' = NoCall
  /\ UNCHANGED <<appVars, callsLeft, panelVars, motionVars, now>>

\* await Haptics.notificationAsync(Success) settles: flipCoin returns.
FlipNotifySettled(i, ok) ==
  /\ inv[i].pc = "notify"
  /\ inv' = [inv EXCEPT ![i] = Free]
  /\ lastCall' = NoCall
  /\ UNCHANGED <<appVars, callsLeft, faultsLeft, storage, panelVars,
                 motionVars, now>>

\* ------------------------------------ resetResult, toggleMode, the labels

\* The guard reading the React state alone: if (isFlipping) return
BusyGuardStateOnly(c) == c.isFlipping

\* resetResult's and toggleMode's guard: isFlipping || flipInProgressRef.current
BusyGuard(c) == c.isFlipping \/ flipInProgressRef

\* resetResult guarded by the isFlipping of its closure alone
ResetResultStateGuard(c) ==
  IF c.isFlipping
  THEN /\ lastCall' = Refused("resetResult")
       /\ UNCHANGED side
  ELSE /\ side' = NULL
       /\ lastCall' = NoCall

\* resetResult without its setSide(null)
ResetResultKeepsSide(c) ==
  IF BusyGuard(c)
  THEN /\ lastCall' = Refused("resetResult")
       /\ UNCHANGED side
  ELSE /\ side' = side
       /\ lastCall' = NoCall

\* resetResult called with the closure c: the light cue is requested (its
\* rejection is swallowed by .catch) and the result is cleared.
ResetResult(c) ==
  IF BusyGuard(c)
  THEN /\ lastCall' = Refused("resetResult")
       /\ UNCHANGED side
  ELSE /\ side' = NULL
       /\ lastCall' = NoCall

\* The "Reset" button (rendered when side is set): onPress={resetResult}
TapReset ==
  /\ isMounted
  /\ side # NULL
  /\ ResetResult(LatestRender)
  /\ UNCHANGED <<isFlipping, isCustomMode, customSideA, customSideB,
                 flipInProgressRef, inv, callsLeft, faultsLeft, storage, panelVars,
                 motionVars, now>>

\* toggleMode: either mode button
ToggleMode ==
  /\ isMounted
  /\ IF BusyGuard(LatestRender)
     THEN /\ lastCall' = Refused("toggleMode")
          /\ UNCHANGED <<side, isCustomMode>>
     ELSE /\ isCustomMode' = ~LatestRender.isCustomMode
          /\ side' = NULL
          /\ lastCall' = NoCall
  /\ UNCHANGED <<isFlipping, customSideA, customSideB, flipInProgressRef, inv,
                 callsLeft, faultsLeft, storage, panelVars, motionVars, now>>

\* The mode buttons: "Heads/Tails" (custom = FALSE) and "Custom (A/B)"
\* (custom = TRUE). Both have onPress={toggleMode}, and toggleMode takes no
\* argument: the handler does not learn which button was pressed.
PressModeButton(custom) == ToggleMode

PIZZA == <<"P", "i", "z", "z", "a">>
\* The texts the inputs deliver: empty, blank, plain, padded.
LabelTexts == {<<>>, <<" ">>, PIZZA, <<" ", "O", "k", "\n">>}

\* handleCustomSideAChange (the inputs are rendered in custom mode).  The
\* handler has no guard of its own; the input is rendered with
\* editable={!isFlipping}, a prop the native field takes over after the
\* render, so a change event under way when a flip starts still reaches the
\* handler: the handler can run in every phase.
HandleCustomSideAChange(text) ==
  /\ isMounted
  /\ isCustomMode
  /\ customSideA' = Substring0(text, MAX_LABEL_LENGTH)
  /\ lastCall' = NoCall
  /\ UNCHANGED <<side, isFlipping, isCustomMode, customSideB,
                 flipInProgressRef, inv, callsLeft, faultsLeft, storage, panelVars,
                 motionVars, now>>

\* handleCustomSideBChange
HandleCustomSideBChange(text) ==
  /\ isMounted
  /\ isCustomMode
  /\ customSideB' = Substring0(text, MAX_LABEL_LENGTH)
  /\ lastCall' = NoCall
  /\ UNCHANGED <<side, isFlipping, isCustomMode, customSideA,
                 flipInProgressRef, inv, callsLeft, faultsLeft, storage, panelVars,
                 motionVars, now>>

\* getDisplayLabel
GetDisplayLabel ==
  IF side = NULL THEN READY
  ELSE IF side = "A" /\ Truthy(customSideA) THEN Trim(customSideA)
  ELSE IF side = "B" /\ Truthy(customSideB) THEN Trim(customSideB)
  ELSE Chars(side)

\* ----------------------------------------- HistoryPanel (unnamed/part_000)

\* The History button: the panel becomes visible and its effect calls
\* loadHistory, which awaits getHistory.
OpenHistory ==
  /\ isMounted
  /\ ~historyVisible
  /\ loadPc = "idle"
  /\ historyVisible' = TRUE
  /\ isLoading' = TRUE
  /\ loadPc' = "get"
  /\ lastCall' = NoCall
  /\ UNCHANGED <<appVars, inv, callsLeft, faultsLeft, storage, panelHistory,
                 clearPc,
                 motionVars, now>>

\* onClose
CloseHistory ==
  /\ isMounted
  /\ historyVisible
  /\ historyVisible' = FALSE
  /\ lastCall' = NoCall
  /\ UNCHANGED <<appVars, inv, callsLeft, faultsLeft, storage, panelHistory,
                 isLoading,
                 loadPc, clearPc, motionVars, now>>

\* loadHistory: getHistory returns (Array.isArray holds of all it returns);
\* had it thrown, the catch would set [].
LoadHistorySettled(rejected) ==
  /\ loadPc = "get"
  /\ LET h == GetHistory(GetItem(rejected))
     IN panelHistory' = IF h.threw THEN <<>> ELSE h.value
  /\ isLoading' = FALSE
  /\ loadPc' = "idle"
  /\ Fault(rejected)
  /\ lastCall' = NoCall
  /\ UNCHANGED <<appVars, inv, callsLeft, storage, historyVisible, clearPc,
                 motionVars, now>>

\* The "Clear History" button (rendered under a loaded, non-empty list):
\* handleClearHistory awaits clearHistory, which awaits removeItem.
HandleClearHistory ==
  /\ isMounted
  /\ historyVisible
  /\ ~isLoading
  /\ panelHistory # <<>>
  /\ clearPc = "idle"
  /\ clearPc' = "remove"
  /\ lastCall' = NoCall
  /\ UNCHANGED <<appVars, inv, callsLeft, faultsLeft, storage,
                 historyVisible, panelHistory,
                 isLoading, loadPc, motionVars, now>>

\* clearHistory returning true from its catch as well
ClearHistoryAlwaysTrue(rejected) ==
  [success |-> TRUE, item |-> IF rejected THEN storage ELSE NoItem]

\* clearHistory: removeItem settles; true, or false from the catch.
ClearHistory(rejected) ==
  [success |-> ~rejected, item |-> IF rejected THEN storage ELSE NoItem]

\* handleClearHistory resumes: if (success) setHistory([])
ClearHistorySettled(rejected) ==
  /\ clearPc = "remove"
  /\ LET r == ClearHistory(rejected)
     IN /\ storage' = r.item
        /\ panelHistory' = IF r.success THEN <<>> ELSE panelHistory
  /\ clearPc' = "idle"
  /\ Fault(rejected)
  /\ lastCall' = NoCall
  /\ UNCHANGED <<appVars, inv, callsLeft, historyVisible, isLoading, loadPc,
                 motionVars, now>>

\* ------------------------------------- the accelerometer effect (App.js)

\* Milliseconds.
FLICK_DEBOUNCE_MS == 4000
SHAKE_DEBOUNCE_MS == 1000
\* Accelerations are in tenths of a g: 0.8 and 1.5.
FLICK_THRESHOLD == 8
SHAKE_THRESHOLD == 15

\* Date.now() when the component mounts: far more than either debounce
\* after the epoch the refs start at.
StartTime == 10000
\* The window of the clock: just past the longer debounce.
TickMs == 4001

\* A JavaScript value a sample's component may hold.
Num(v) == [type |-> "number", nan |-> FALSE, v |-> v]
NaN == [type |-> "number", nan |-> TRUE, v |-> 0]
Undefined == [type |-> "undefined", nan |-> FALSE, v |-> 0]

\* a - b and a > b on numbers
Minus(a, b) == IF a.nan \/ b.nan THEN NaN ELSE Num(a.v - b.v)
Greater(a, n) == ~a.nan /\ a.v > n

\* x * x + y * y + z * z
SumOfSquares(x, y, z) ==
  IF x.nan \/ y.nan \/ z.nan THEN NaN
  ELSE Num(x.v * x.v + y.v * y.v + z.v * z.v)

\* Math.sqrt(s) > threshold, for s >= 0
SqrtGreater(s, threshold) == Greater(s, threshold * threshold)

Sample(x, y, z) == [x |-> x, y |-> y, z |-> z]
\* at rest, a flick, a flick that is also a shake, a shake, a broken sample
Samples ==
  { Sample(Num(0), Num(0), Num(0)),
    Sample(Num(0), Num(9), Num(0)),
    Sample(Num(0), Num(20), Num(0)),
    Sample(Num(16), Num(0), Num(0)),
    Sample(Undefined, Num(9), Num(0)) }

\* setupShakeDetection resumes after await Accelerometer.isAvailableAsync()
\* (a rejection lands in the catch): it subscribes or returns.
SetupSettled(isAvailable) ==
  /\ setupPc = "check"
  /\ setupPc' = IF ~isAvailable \/ ~isMounted THEN "off" ELSE "subscribed"
  /\ lastCall' = NoCall
  /\ UNCHANGED <<appVars, inv, callsLeft, faultsLeft, storage, panelVars,
                 isMounted, prevYRef,
                 lastFlickTimeRef, lastShakeTimeRef, shakeTimeoutRef, now>>

\* The flick condition with the debounce compared by >= instead of >
IsFlickAtDebounce(yDelta) ==
  /\ Greater(yDelta, FLICK_THRESHOLD)
  /\ now - lastFlickTimeRef >= FLICK_DEBOUNCE_MS
  /\ ~flipInProgressRef

\* The flick condition without its test of flipInProgressRef
IsFlickAnyPhase(yDelta) ==
  /\ Greater(yDelta, FLICK_THRESHOLD)
  /\ now - lastFlickTimeRef > FLICK_DEBOUNCE_MS

\* The listener's flick condition
IsFlick(yDelta) ==
  /\ Greater(yDelta, FLICK_THRESHOLD)
  /\ now - lastFlickTimeRef > FLICK_DEBOUNCE_MS
  /\ ~flipInProgressRef

\* The shake condition without its debounce
IsShakeUndebounced(s) ==
  SqrtGreater(SumOfSquares(s.x, s.y, s.z), SHAKE_THRESHOLD)

\* The listener's shake condition
IsShake(s) ==
  /\ SqrtGreater(SumOfSquares(s.x, s.y, s.z), SHAKE_THRESHOLD)
  /\ now - lastShakeTimeRef > SHAKE_DEBOUNCE_MS

\* The callback without the return that ends its flick branch: a flick goes
\* on to the shake test.
AccelerometerListenerFallsThrough(s) ==
  /\ setupPc = "subscribed"
  /\ IF s.x.type # "number" \/ s.y.type # "number" \/ s.z.type # "number"
     THEN /\ lastCall' = Refused("listener")
          /\ UNCHANGED <<isFlipping, flipInProgressRef, inv, callsLeft,
                         faultsLeft, prevYRef,
                         lastFlickTimeRef, lastShakeTimeRef, shakeTimeoutRef>>
     ELSE /\ prevYRef' = s.y
          /\ IF IsFlick(Minus(s.y, prevYRef))
             THEN /\ lastFlickTimeRef' = now
                  /\ IF isMounted
                     THEN FlipCoin(FirstRender)
                     ELSE /\ lastCall' = NoCall
                          /\ UNCHANGED <<isFlipping, flipInProgressRef, inv,
                                         callsLeft, faultsLeft>>
             ELSE /\ lastCall' = NoCall
                  /\ UNCHANGED <<isFlipping, flipInProgressRef, inv,
                                 callsLeft, faultsLeft,
                                 lastFlickTimeRef>>
          /\ IF IsShake(s)
             THEN /\ lastShakeTimeRef' = now
                  /\ shakeTimeoutRef' = "pending"
             ELSE UNCHANGED <<lastShakeTimeRef, shakeTimeoutRef>>
  /\ UNCHANGED <<side, isCustomMode, customSideA, customSideB, storage,
                 panelVars, isMounted, setupPc, now>>

\* Accelerometer.addListener's callback, for one sample
AccelerometerListener(s) ==
  /\ setupPc = "subscribed"
  /\ IF s.x.type # "number" \/ s.y.type # "number" \/ s.z.type # "number"
     THEN /\ lastCall' = Refused("listener")
          /\ UNCHANGED <<isFlipping, flipInProgressRef, inv, callsLeft,
                         faultsLeft, prevYRef,
                         lastFlickTimeRef, lastShakeTimeRef, shakeTimeoutRef>>
     ELSE /\ prevYRef' = s.y
          /\ IF IsFlick(Minus(s.y, prevYRef))
             THEN /\ lastFlickTimeRef' = now
                  /\ IF isMounted
                     THEN FlipCoin(FirstRender)
                     ELSE /\ lastCall' = NoCall
                          /\ UNCHANGED <<isFlipping, flipInProgressRef, inv,
                                         callsLeft, faultsLeft>>
                  /\ UNCHANGED <<lastShakeTimeRef, shakeTimeoutRef>>
             ELSE /\ IF IsShake(s)
                     THEN /\ lastShakeTimeRef' = now
                          /\ shakeTimeoutRef' = "pending"
                     ELSE UNCHANGED <<lastShakeTimeRef, shakeTimeoutRef>>
                  /\ lastCall' = NoCall
                  /\ UNCHANGED <<isFlipping, flipInProgressRef, inv,
                                 callsLeft, faultsLeft,
                                 lastFlickTimeRef>>
  /\ UNCHANGED <<side, isCustomMode, customSideA, customSideB, storage,
                 panelVars, isMounted, setupPc, now>>

\* The 100 ms timer of a shake fires: if (isMounted) resetResult()
ShakeTimeoutFired ==
  /\ shakeTimeoutRef = "pending"
  /\ shakeTimeoutRef' = "fired"
  /\ IF isMounted
     THEN ResetResult(FirstRender)
     ELSE /\ lastCall' = NoCall
          /\ UNCHANGED side
  /\ UNCHANGED <<isFlipping, isCustomMode, customSideA, customSideB,
                 flipInProgressRef, inv, callsLeft, faultsLeft, storage, panelVars, isMounted,
                 setupPc, prevYRef, lastFlickTimeRef, lastShakeTimeRef, now>>

\* The cleanup without its clearTimeout(shakeTimeoutRef.current)
CleanupKeepsTimer ==
  /\ isMounted
  /\ isMounted' = FALSE
  /\ setupPc' = IF setupPc = "subscribed" THEN "off" ELSE setupPc
  /\ lastCall' = NoCall
  /\ UNCHANGED <<appVars, inv, callsLeft, faultsLeft, storage, panelVars,
                 prevYRef, shakeTimeoutRef,
                 lastFlickTimeRef, lastShakeTimeRef, now>>

\* The effect's cleanup, when the component unmounts
Cleanup ==
  /\ isMounted
  /\ isMounted' = FALSE
  /\ setupPc' = IF setupPc = "subscribed" THEN "off" ELSE setupPc
  /\ shakeTimeoutRef' = "null"
  /\ lastCall' = NoCall
  /\ UNCHANGED <<appVars, inv, callsLeft, faultsLeft, storage, panelVars,
                 prevYRef,
                 lastFlickTimeRef, lastShakeTimeRef, now>>

\* A setTimeout of call i is pending (the 100 ms or the 3100 ms delay).
TimerPending(i) == inv[i].pc \in {"preroll", "anim"}

\* The instants at which something happens in a run, in milliseconds after
\* the start: a haptic cue that takes 100 ms, the two delays of a flip after
\* it, the end of the flick debounce and the millisecond after it.
Instants == {100, 200, 3200, 3300, 4000, 4001}

\* Time passes until the instant t, within the horizon of the run.  A
\* pending timer of flipCoin fires when it is due, so the clock does not
\* pass it.
Tick(t) ==
  /\ StartTime + t > now
  /\ t <= MaxTicks * TickMs
  /\ \A i \in Slots : TimerPending(i) => StartTime + t <= inv[i].due
  /\ now' = StartTime + t
  /\ lastCall' = NoCall
  /\ UNCHANGED <<appVars, inv, callsLeft, faultsLeft, storage, panelVars,
                 motionVars>>

\* ------------------------------------------------------ the application

\* The slot as the application may find it when it starts.
InitialItems == {NoItem, InvalidJson, NonArrayJson}

InitApp ==
  /\ side = NULL
  /\ isFlipping = FALSE
  /\ isCustomMode = FALSE
  /\ customSideA = <<>>
  /\ customSideB = <<>>
  /\ flipInProgressRef = FALSE
  /\ inv = [i \in Slots |-> Free]
  /\ historyVisible = FALSE
  /\ panelHistory = <<>>
  /\ isLoading = TRUE
  /\ loadPc = "idle"
  /\ clearPc = "idle"
  /\ isMounted = TRUE
  /\ prevYRef = Num(0)
  /\ lastFlickTimeRef = 0
  /\ lastShakeTimeRef = 0
  /\ shakeTimeoutRef = "null"
  /\ now = StartTime
  /\ lastCall = NoCall

\* A log an earlier run of the application left.
PriorLog == JSONStringify(<<[side |-> TAILS, timestamp |-> 1]>>)

Init ==
  /\ InitApp
  /\ setupPc = "check"
  /\ storage \in {NoItem, PriorLog}
  /\ callsLeft = MaxFlips
  /\ faultsLeft = MaxFaults

FlipStep(i) ==
  \/ \E ok \in BOOLEAN : FlipHapticSettled(i, ok)
  \/ \E low \in BOOLEAN : FlipPrerollElapsed(i, low)
  \/ FlipAnimationElapsed(i)
  \/ FlipFailSafe(i)
  \/ \E rejected \in BOOLEAN : SaveGet(i, rejected)
  \/ \E rejected \in BOOLEAN : SaveSet(i, rejected)
  \/ \E ok \in BOOLEAN : FlipNotifySettled(i, ok)

Next ==
  \/ TapFlip
  \/ \E v \in PanVelocities : PanFlip(v)
  \/ \E i \in Slots : FlipStep(i)
  \/ TapReset
  \/ \E custom \in BOOLEAN : PressModeButton(custom)
  \/ \E isAvailable \in BOOLEAN : SetupSettled(isAvailable)
  \/ \E s \in Samples : AccelerometerListener(s)
  \/ ShakeTimeoutFired

\* The coordinator: every trigger of a flip, reset and mode switch, the
\* motion detector, the history writes; the clock stands still.
Spec == Init /\ [][Next]_vars

\* The application started on a slot never written.
LiveInit == Init /\ storage = NoItem

\* The timers of a flip fire and its promises settle.
Fairness == \A i \in Slots : WF_vars(FlipStep(i))
LiveSpec == LiveInit /\ [][Next]_vars /\ Fairness

\* --------------------------------------------- the coordinator with labels

LabelNext ==
  \/ Next
  \/ \E text \in LabelTexts : HandleCustomSideAChange(text)
  \/ \E text \in LabelTexts : HandleCustomSideBChange(text)

LabelSpec == Init /\ [][LabelNext]_vars

\* ---------------------------------- the storage module, called in sequence

\* No call of the storage module is in flight.
Quiet ==
  /\ \A i \in Slots : inv[i].pc \in {"free", "returned"}
  /\ loadPc = "idle"
  /\ clearPc = "idle"

\* The labels the caller passes: a plain one, a padded one, an invalid one.
ApiLabels == {<<"x">>, <<" ", "x", " ">>, <<>>}

\* A caller awaits saveFlipToHistory(label), a millisecond after the call
\* before it.
ApiAppend(label) ==
  /\ Quiet
  /\ callsLeft > 0
  /\ callsLeft' = callsLeft - 1
  /\ now' = now + 1
  /\ inv' = [inv EXCEPT ![1] =
       SaveCall([Free EXCEPT !.caller = "api"], label, now + 1)]
  /\ lastCall' = NoCall
  /\ UNCHANGED <<appVars, faultsLeft, storage, panelVars, motionVars>>

StorageInit ==
  /\ InitApp
  /\ setupPc = "off"
  /\ storage \in InitialItems
  /\ callsLeft = MaxAppends
  /\ faultsLeft = MaxFaults

StorageNext ==
  \/ \E label \in ApiLabels : ApiAppend(label)
  \/ \E rejected \in BOOLEAN : SaveGet(1, rejected)
  \/ \E rejected \in BOOLEAN : SaveSet(1, rejected)
  \/ Quiet /\ OpenHistory
  \/ Quiet /\ CloseHistory
  \/ \E rejected \in BOOLEAN : LoadHistorySettled(rejected)
  \/ Quiet /\ HandleClearHistory
  \/ \E rejected \in BOOLEAN : ClearHistorySettled(rejected)

StorageSpec == StorageInit /\ [][StorageNext]_vars

\* ------------------------- the storage module: twelve appends, then readAll

\* appends of the ordered driver (OrderSpec) in one run
MaxOrder == 12

Digits == <<"0", "1", "2", "3", "4", "5", "6", "7", "8", "9">>

RECURSIVE Decimal(_)
Decimal(k) ==
  IF k < 10 THEN <<Digits[k + 1]>>
  ELSE Decimal(k \div 10) \o <<Digits[(k % 10) + 1]>>

\* The label of the k-th append: "E1", "E2", ...
OrderLabel(k) == <<"E">> \o Decimal(k)

\* How many appends the driver has called.
OrderCalls == now - StartTime

\* The caller awaits saveFlipToHistory("E<k>") for the next k.
OrderAppend == ApiAppend(OrderLabel(OrderCalls + 1))

\* A storage that works, and a slot never written.
OrderInit ==
  /\ InitApp
  /\ setupPc = "off"
  /\ storage = NoItem
  /\ callsLeft = MaxOrder
  /\ faultsLeft = 0

OrderNext ==
  \/ OrderAppend
  \/ \E rejected \in BOOLEAN : SaveGet(1, rejected)
  \/ \E rejected \in BOOLEAN : SaveSet(1, rejected)
  \/ Quiet /\ OpenHistory
  \/ Quiet /\ CloseHistory
  \/ \E rejected \in BOOLEAN : LoadHistorySettled(rejected)

OrderSpec == OrderInit /\ [][OrderNext]_vars

\* ------------------------------------------------ the clock runs: timers

\* flipCoin calls that end in one run of the timed specifications
MaxTimedFlips == 2

\* The timer call i waits for, if any, is due.
TimerDue(i) == TimerPending(i) => now >= inv[i].due

\* A step of call i when the clock runs: a timer fires no sooner than due.
TimedFlipStep(i) == TimerDue(i) /\ FlipStep(i)

\* A device at rest, and one pushed upward by 0.9 g.
FlickSamples == {Sample(Num(0), Num(0), Num(0)), Sample(Num(0), Num(9), Num(0))}

FlickInit ==
  /\ InitApp
  /\ setupPc = "check"
  /\ storage = NoItem
  /\ callsLeft = MaxTimedFlips
  /\ faultsLeft = MaxFaults

FlickNext ==
  \/ \E isAvailable \in BOOLEAN : SetupSettled(isAvailable)
  \/ \E s \in FlickSamples : AccelerometerListener(s)
  \/ \E i \in Slots : TimedFlipStep(i)
  \/ \E t \in Instants : Tick(t)

\* The motion detector as the only trigger of flips, the clock running.
FlickSpec == FlickInit /\ [][FlickNext]_vars

TimedInit ==
  /\ InitApp
  /\ setupPc = "off"
  /\ storage = NoItem
  /\ callsLeft = MaxTimedFlips
  /\ faultsLeft = MaxFaults

TimedNext ==
  \/ TapFlip
  \/ \E v \in PanVelocities : PanFlip(v)
  \/ \E i \in Slots : TimedFlipStep(i)
  \/ \E t \in Instants : Tick(t)

\* The button and the pan gesture as triggers of flips, the clock running.
TimedSpec == TimedInit /\ [][TimedNext]_vars

\* ------------------------------------------------------------- properties

\* A flipCoin call between its guard (line 69) and its commit (lines 102-104)
\* or the outer catch: what the spec calls phase = Flipping.
Flipping(i) == inv[i].pc \in {"haptic", "preroll", "anim"}
FlippingSlots == {i \in Slots : Flipping(i)}

\* The step is the commit of call i.
Commits(i) == inv[i].pc = "anim" /\ inv'[i].pc \in {"saveGet", "notify"}

\* The step is the resolution of call i's setItem: the append returns true.
Appends(i) == inv[i].pc = "saveSet" /\ inv'[i].saved = "true"

\* What is persisted under HISTORY_KEY, as a sequence of entries.
Log == IF storage.kind = "array" THEN storage.val ELSE <<>>

Min(a, b) == IF a <= b THEN a ELSE b

\* C1: at most one flip is in progress (between guard and commit or
\* fail-safe) at any time; a tap that arrives while a flip is in progress is
\* refused; and a refused flipCoin happens only while a flip is in progress
\* and changes nothing: no flag, no call in flight (nothing is queued, drawn
\* or committed), no history write.
C1_OneFlipAtATime ==
  /\ [](Cardinality(FlippingSlots) <= 1)
  /\ [][(FlippingSlots # {} /\ TapFlip) => lastCall' = Refused("flipCoin")]_vars
  /\ [][lastCall' = Refused("flipCoin") =>
          /\ FlippingSlots # {}
          /\ UNCHANGED <<appVars, inv, callsLeft, faultsLeft, storage,
                         panelVars, motionVars, now>>]_vars

\* C1: a flipCoin call has been refused while a flip waits for its 3100 ms
\* timer.
C1_Witness ==
  /\ lastCall = Refused("flipCoin")
  /\ \E i \in Slots : inv[i].pc = "anim"

\* C2: whenever the guard is held it is eventually released with no flip in
\* progress (isFlipping and flipInProgressRef both false), by the commit or
\* by the outer catch; and while a call is in progress every step that
\* touches it is a step of the call itself, the flags staying set: no other
\* handler cancels it.
C2_FlipEnds ==
  /\ (isFlipping \/ flipInProgressRef) ~>
       (FlippingSlots = {} /\ ~isFlipping /\ ~flipInProgressRef)
  /\ [][\A i \in Slots : Flipping(i) =>
          \/ FlipStep(i)
          \/ inv'[i] = inv[i] /\ isFlipping' /\ flipInProgressRef']_vars

\* C2: an accepted flip has come to its end and the guard is released.
C2_Witness ==
  /\ callsLeft < MaxFlips
  /\ FlippingSlots = {}
  /\ ~isFlipping
  /\ ~flipInProgressRef

\* C3: in Custom mode the committed outcome is None, A or B, and in Standard
\* mode it is None, Heads or Tails, whichever trigger started the flip.
C3_OutcomeMatchesMode ==
  /\ isCustomMode => side \in {NULL, "A", "B"}
  /\ ~isCustomMode => side \in {NULL, "Heads", "Tails"}

\* The label the spec resolves for the chosen side: the trimmed custom label
\* if that is not empty, else the canonical name.
CustomLabel(chosen, label) ==
  IF Trim(label) # <<>> THEN Trim(label) ELSE Chars(chosen)

\* C4: every flip that commits in Custom mode commits A or B, and both the
\* label of its history entry and the label displayed are the trimmed custom
\* label of the chosen side, or "A" / "B" if that label is empty or blank.
C4_CustomLabel ==
  [][\A i \in Slots : (Commits(i) /\ isCustomMode) =>
       \E chosen \in {"A", "B"} :
         LET label == CustomLabel(chosen, IF chosen = "A" THEN customSideA'
                                                          ELSE customSideB')
         IN /\ side' = chosen
            /\ inv'[i].entry.side = label
            /\ GetDisplayLabel' = label]_vars

\* C5: the persisted log never holds more than 10 entries, whatever the slot
\* held at the start and whichever calls fail; and an append that read a log
\* of 10 entries and wrote leaves its entry first, then the first nine of
\* the old log in their order: the tenth, the oldest, is gone.
C5_AtMostTen ==
  /\ [](Len(Log) <= 10)
  /\ [][\A i \in Slots :
          (Appends(i) /\ inv[i].read = "array" /\ Len(Log) = 10) =>
            Log' = <<inv[i].entry>> \o SubSeq(Log, 1, 9)]_vars

\* C5: an append onto a log of 10 entries has returned true.
C5_Witness ==
  /\ inv[1].pc = "returned"
  /\ inv[1].saved = "true"
  /\ Len(inv[1].currentHistory) = 10
  /\ Len(Log) = 10

\* The k-th entry of the ordered driver.
OrderEntry(k) == Entry(OrderLabel(k), StartTime + k)

\* The appends of the ordered driver that have returned.
OrderDone ==
  IF inv[1].pc \in {"saveGet", "saveSet"} THEN OrderCalls - 1 ELSE OrderCalls

\* E_n, E_(n-1), ... : the last min(n, 10) entries, newest first.
NewestFirst(n) == [j \in 1..Min(n, 10) |-> OrderEntry(n - j + 1)]

\* C6: after n successful appends E1..En in sequence, getHistory returns the
\* last min(n, 10) of them, newest first, and so does the history view
\* whenever it has loaded since the n-th append.
C6_NewestFirst ==
  /\ GetHistory(GetItem(FALSE)).value = NewestFirst(OrderDone)
  /\ (~isLoading /\ loadPc = "idle") =>
       \E n \in 0..OrderDone : panelHistory = NewestFirst(n)

\* C6: twelve appends have returned and the view has loaded E12, ..., E3.
C6_Witness ==
  /\ OrderDone = 12
  /\ ~isLoading
  /\ Len(panelHistory) = 10
  /\ panelHistory[1] = [side |-> <<"E", "1", "2">>, timestamp |-> StartTime + 12]
  /\ panelHistory[10] = [side |-> <<"E", "3">>, timestamp |-> StartTime + 3]

\* C7: getHistory never throws, and returns [] when getItem rejects, when the
\* slot holds nothing, a string that is not JSON, or JSON that is not an
\* array; saveFlipToHistory then goes on to its write with [] as the current
\* history, and once the write resolves the log is that one entry; the view,
\* loading such a slot, shows [].
C7_ReadAllNeverThrows ==
  /\ [](\A rejected \in BOOLEAN :
          LET h == GetHistory(GetItem(rejected))
          IN /\ ~h.threw
             /\ (rejected \/ storage.kind # "array") => h.value = <<>>)
  /\ [][\A i \in Slots :
          (inv[i].pc = "saveGet" /\ inv'[i].pc # "saveGet") =>
            /\ inv'[i].pc = "saveSet"
            /\ inv'[i].read # "array" => inv'[i].currentHistory = <<>>]_vars
  /\ [][\A i \in Slots :
          (Appends(i) /\ inv[i].read # "array") =>
            storage' = JSONStringify(<<inv[i].entry>>)]_vars
  /\ [][(loadPc = "get" /\ loadPc' = "idle" /\ storage.kind # "array") =>
          panelHistory' = <<>>]_vars

\* C7: an append on a slot that holds a string that is not JSON has returned
\* true and the log is its one entry.
C7_Witness ==
  /\ inv[1].pc = "returned"
  /\ inv[1].read = "invalid"
  /\ inv[1].saved = "true"
  /\ storage = JSONStringify(<<inv[1].entry>>)

\* C8: a reset (button, or the timer of a shake) or a mode switch that comes
\* while a flip is in progress is refused and changes nothing: mode, result,
\* labels, flags, the calls in flight and the persisted log stay as they are.
C8_BusyIsNoOp ==
  [][(FlippingSlots # {} /\ (TapReset \/ ToggleMode \/ ShakeTimeoutFired)) =>
       /\ lastCall' \in {Refused("resetResult"), Refused("toggleMode")}
       /\ UNCHANGED <<appVars, inv, storage>>]_vars

\* C8: the reset of a shake has been refused while a flip is in progress.
C8_Witness ==
  /\ lastCall = Refused("resetResult")
  /\ FlippingSlots # {}
  /\ shakeTimeoutRef = "fired"

\* C9: a flip that commits in Standard mode commits Heads or Tails and hands
\* saveFlipToHistory that very label; when its read resolved and nothing
\* else wrote in between, its write puts that one entry at the head of the
\* log, before what was there (cut to ten); and the log changes at no other
\* step: a refused request or a flip the outer catch ended writes nothing.
C9_StandardFlip ==
  /\ [][\A i \in Slots : (Commits(i) /\ ~isCustomMode) =>
          /\ side' \in {"Heads", "Tails"}
          /\ inv'[i].pc = "saveGet"
          /\ inv'[i].entry.side = Chars(side')]_vars
  /\ [][\A i \in Slots :
          (Appends(i) /\ inv[i].read \in {"null", "array"}
                      /\ inv[i].currentHistory = Log) =>
            /\ Head(Log') = inv[i].entry
            /\ Tail(Log') = SubSeq(Log, 1, Min(Len(Log), 9))]_vars
  /\ [][Log' # Log => \E i \in Slots : Appends(i)]_vars
  /\ [][\A i \in Slots :
          (inv'[i].pc = "saveGet" /\ inv[i].pc # "saveGet") => Commits(i)]_vars

\* C9: a flip in Standard mode has run to its end with Heads, and the log is
\* its entry followed by the entry that was there.
C9_Witness ==
  /\ ~isCustomMode
  /\ side = "Heads"
  /\ \A i \in Slots : inv[i].pc = "free"
  /\ Len(Log) = 2
  /\ Log[1].side = HEADS
  /\ <<Log[2]>> = PriorLog.val

\* C10: when the history write of a flip fails - its getItem rejects or its
\* setItem rejects - no entry of the persisted log is lost (the log is to be
\* left exactly as it was), the outcome and the released guard stay, and
\* flipCoin goes on to the success cue.
C10_FailedWriteKeepsLog ==
  [][\A i \in Slots :
       (/\ inv[i].caller = "flipCoin"
        /\ inv[i].pc = "saveSet"
        /\ inv'[i].pc # "saveSet"
        /\ (inv[i].read = "rejected" \/ inv'[i].saved = "false")) =>
         /\ \A k \in 1..Len(Log) : \E m \in 1..Len(Log') : Log'[m] = Log[k]
         /\ inv'[i].pc = "notify"
         /\ UNCHANGED <<side, isFlipping, flipInProgressRef>>]_vars

\* The step is the listener starting a flip on a flick.
FlickFires ==
  /\ \E s \in FlickSamples : AccelerometerListener(s)
  /\ FlippingSlots = {}
  /\ FlippingSlots' # {}

\* C11: the listener starts a flip only more than 4000 ms after the flick
\* it last recorded, and records the time of each flick that starts one: so
\* two flicks that start flips are more than 4000 ms apart, and of two
\* upward pushes at most 4000 ms apart only the first starts a flip.
C11_FlickDebounce ==
  [][FlickFires =>
       /\ now - lastFlickTimeRef > 4000
       /\ lastFlickTimeRef' = now]_vars

\* C11: a first flick started a flip when the application started, that
\* flip has ended, and a second flick, 4001 ms after the first, has started
\* a second flip.
C11_Witness ==
  /\ now = StartTime + 4001
  /\ lastFlickTimeRef = now
  /\ callsLeft = MaxTimedFlips - 1
  /\ \E i \in Slots : Flipping(i) /\ inv[i].startedAt = now

\* C12: every flip that commits does so FLIP_ANIMATION_DURATION (3200 ms)
\* after the call of flipCoin that started it, however long the impact cue
\* took and whether it failed.
C12_FixedDuration ==
  [][\A i \in Slots :
       Commits(i) => now - inv[i].startedAt = 3200]_vars

\* C13: a press of a mode button that is accepted (no flip in progress)
\* leaves the mode that button stands for, also when that mode was already
\* the active one, clears the displayed side and leaves the stored log alone.
C13_SetMode ==
  [][\A custom \in BOOLEAN :
       (PressModeButton(custom) /\ ~BusyGuard(LatestRender)) =>
         /\ isCustomMode' = custom
         /\ side' = NULL
         /\ storage' = storage]_vars

\* The step is a call of resetResult that passes its guard: from the Reset
\* button, or from the timer a shake has set.
ResetAccepted ==
  \/ TapReset /\ ~BusyGuard(LatestRender)
  \/ ShakeTimeoutFired /\ isMounted /\ ~BusyGuard(FirstRender)

\* C14: a reset that is accepted clears the displayed side and changes
\* nothing else: the mode, the labels, the two busy flags, the calls in
\* flight, the detector's references and the stored log stay as they are.
\* The light cue is requested and not awaited, and its rejection handler is
\* empty: no step of the application depends on how it settles.
C14_ResetOnlyClears ==
  [][ResetAccepted =>
       /\ side' = NULL
       /\ UNCHANGED <<isCustomMode, customSideA, customSideB, isFlipping,
                      flipInProgressRef, inv, storage, prevYRef,
                      lastFlickTimeRef, lastShakeTimeRef>>]_vars

\* C14: a flip has committed in Custom mode and stored its entry, and the
\* reset of a shake has then cleared the displayed side.
C14_Witness ==
  /\ side = NULL
  /\ isCustomMode
  /\ shakeTimeoutRef = "fired"
  /\ lastCall = NoCall
  /\ FlippingSlots = {}
  /\ callsLeft = 0
  /\ Len(Log) = 2
  /\ Log[1].side = SIDE_A

\* --------------------------------------------------- the label inputs alone

\* How many characters beyond MAX_LABEL_LENGTH the longest text has, and
\* short of it the shortest long one.
MaxOverflow == 2

\* A text of n characters that starts with a space, has a space at every
\* tenth place (so also at place 150) and letters elsewhere; the letters
\* beyond place 150 differ from those before.
LongText(n) ==
  [k \in 1..n |-> IF k = 1 \/ k % 10 = 0 THEN " "
                  ELSE IF k > MAX_LABEL_LENGTH THEN "z" ELSE "a"]

\* The texts onChangeText delivers here: the short ones, one with white space
\* inside, and texts of 150 - MaxOverflow up to 150 + MaxOverflow characters.
EditTexts ==
  LabelTexts \cup {<<"a", " ", " ", "b">>} \cup
  {LongText(n) :
     n \in (MAX_LABEL_LENGTH - MaxOverflow)..(MAX_LABEL_LENGTH + MaxOverflow)}

EditInit ==
  /\ InitApp
  /\ setupPc = "off"
  /\ storage = NoItem
  /\ callsLeft = 0
  /\ faultsLeft = 0

EditNext ==
  \/ \E custom \in BOOLEAN : PressModeButton(custom)
  \/ \E text \in EditTexts : HandleCustomSideAChange(text)
  \/ \E text \in EditTexts : HandleCustomSideBChange(text)

\* The two inputs and the mode buttons; no flip.
EditSpec == EditInit /\ [][EditNext]_vars

\* label holds the first MAX_LABEL_LENGTH characters of text, each as given.
FirstChars(label, text) ==
  /\ Len(label) = Min(Len(text), 150)
  /\ \A k \in 1..Len(label) : label[k] = text[k]

\* C15: both labels hold at most 150 characters in every state; an edit of a
\* side leaves in that side's label the first 150 characters of the text it
\* was given, white space at the start, inside and at the end included and
\* the empty text too, and leaves the other label as it was; and the labels
\* change at no other step.
C15_LabelTruncated ==
  /\ [](Len(customSideA) <= 150 /\ Len(customSideB) <= 150)
  /\ [][\A text \in EditTexts :
          HandleCustomSideAChange(text) =>
            FirstChars(customSideA', text) /\ customSideB' = customSideB]_vars
  /\ [][\A text \in EditTexts :
          HandleCustomSideBChange(text) =>
            FirstChars(customSideB', text) /\ customSideA' = customSideA]_vars
  /\ [][customSideA' # customSideA =>
          \E text \in EditTexts : HandleCustomSideAChange(text)]_vars
  /\ [][customSideB' # customSideB =>
          \E text \in EditTexts : HandleCustomSideBChange(text)]_vars

\* C15: side A was given a text of 150 characters or more and holds its first 150,
\* a space at either end; side B was given the padded text and holds it
\* with its padding.
C15_Witness ==
  /\ customSideA = LongText(150)
  /\ customSideA[1] = " " /\ customSideA[150] = " "
  /\ customSideB = <<" ", "O", "k", "\n">>

\* ------------------------------------------- flips with the labels edited

\* The texts typed here: a word, and nothing (the input is emptied).
TypedTexts == {<<>>, PIZZA}

CustomInit ==
  /\ InitApp
  /\ setupPc = "off"
  /\ storage = NoItem
  /\ callsLeft = MaxFlips
  /\ faultsLeft = MaxFaults

CustomNext ==
  \/ \E custom \in BOOLEAN : PressModeButton(custom)
  \/ \E text \in TypedTexts : HandleCustomSideAChange(text)
  \/ \E text \in TypedTexts : HandleCustomSideBChange(text)
  \/ TapFlip
  \/ \E i \in Slots : FlipStep(i)

\* The mode buttons, the two inputs and the Flip button.
CustomSpec == CustomInit /\ [][CustomNext]_vars

\* The closure c with other labels in it.
WithLabels(c, a, b) == [c EXCEPT !.customSideA = a, !.customSideB = b]

\* C16: the result a flip draws is the one it would have drawn, from the
\* same random number, with any other contents of the two labels (empty,
\* blank, a word, padded); the commit publishes the result drawn; and a flip is
\* accepted or refused whatever the labels are.
C16_LabelsDoNotDecide ==
  /\ [][\A i \in Slots : \A low \in BOOLEAN :
          FlipPrerollElapsed(i, low) =>
            \A a \in LabelTexts : \A b \in LabelTexts :
              inv'[i].result = DrawResult(WithLabels(inv[i], a, b), low)]_vars
  /\ [][\A i \in Slots : Commits(i) => side' = inv[i].result]_vars
  /\ [][TapFlip =>
          \A a \in LabelTexts : \A b \in LabelTexts :
            FlipGuard(WithLabels(LatestRender, a, b)) = FlipGuard(LatestRender)]_vars

\* C16: a flip started in Custom mode with no label for side A and a word
\* for side B has committed A.
C16_Witness ==
  /\ isCustomMode
  /\ side = "A"
  /\ \E i \in Slots :
       /\ inv[i].pc = "saveGet"
       /\ inv[i].result = "A"
       /\ inv[i].customSideA = <<>>
       /\ inv[i].customSideB = PIZZA

\* ------------------------------------------- a device whose cues all fail

\* The steps of call i when every haptic promise rejects and nothing else
\* fails: the storage works and nothing throws.
NoCueFlipStep(i) ==
  \/ FlipHapticSettled(i, FALSE)
  \/ \E low \in BOOLEAN : FlipPrerollElapsed(i, low)
  \/ FlipAnimationElapsed(i)
  \/ SaveGet(i, FALSE)
  \/ SaveSet(i, FALSE)
  \/ FlipNotifySettled(i, FALSE)

CueInit ==
  /\ InitApp
  /\ setupPc = "off"
  /\ storage \in {NoItem, PriorLog}
  /\ callsLeft = MaxFlips
  /\ faultsLeft = 0

CueNext ==
  \/ TapFlip
  \/ \E i \in Slots : NoCueFlipStep(i)
  \/ TapReset
  \/ \E custom \in BOOLEAN : PressModeButton(custom)

\* The buttons, with every cue failing; each call's timers fire and its
\* promises settle.
CueSpec ==
  CueInit /\ [][CueNext]_vars /\ \A i \in Slots : WF_vars(NoCueFlipStep(i))

\* C17: with every cue rejected, a flip that is waiting for its impact cue
\* goes on to its timers with the guard held, draws a result, commits it
\* with the guard released, stores its entry at the head of the log and
\* reaches the success cue, whose rejection lets flipCoin return; and an
\* accepted reset clears the displayed side.
C17_CueFailureDoesNotBlock ==
  /\ \A i \in Slots :
       (inv[i].pc = "haptic") ~>
         (inv[i].pc = "notify" /\ inv[i].saved = "true" /\ inv[i].result # NULL)
  /\ \A i \in Slots : (inv[i].pc = "notify") ~> (inv[i].pc = "free")
  /\ [][\A i \in Slots :
          FlipHapticSettled(i, FALSE) =>
            inv'[i].pc = "preroll" /\ isFlipping' /\ flipInProgressRef']_vars
  /\ [][\A i \in Slots :
          Commits(i) =>
            /\ side' = inv[i].result
            /\ side' \in {"Heads", "Tails", "A", "B"}
            /\ ~isFlipping' /\ ~flipInProgressRef']_vars
  /\ [][\A i \in Slots : Appends(i) => Head(Log') = inv[i].entry]_vars
  /\ [][(TapReset /\ ~BusyGuard(LatestRender)) => side' = NULL]_vars

\* C17: on the device whose cues all fail, a flip in Custom mode has
\* committed B, stored its entry and returned, and a reset has cleared the
\* displayed side.
C17_Witness ==
  /\ isCustomMode
  /\ side = NULL
  /\ callsLeft < MaxFlips
  /\ \A i \in Slots : inv[i].pc = "free"
  /\ Log # <<>>
  /\ Head(Log).side = SIDE_B

\* ------------------------------------------------ flips one after another

\* The flips of a run in which one flip follows another.
MaxSuccessiveFlips == 2

SuccessiveInit ==
  /\ InitApp
  /\ setupPc = "off"
  /\ storage = NoItem
  /\ callsLeft = MaxSuccessiveFlips
  /\ faultsLeft = MaxFaults

SuccessiveNext ==
  \/ TapFlip
  \/ \E i \in Slots : FlipStep(i)

\* The Flip button pressed again and again; a flip can be requested as soon
\* as the one before has committed, while that one is still storing its
\* entry.
SuccessiveSpec == SuccessiveInit /\ [][SuccessiveNext]_vars

\* C18: when no getItem of a call in flight was rejected, a call of
\* saveFlipToHistory that returns true has put its entry in front of the log
\* as it is stored at that moment (cut to ten): no entry an earlier call
\* stored is dropped because this call read the log before the earlier one
\* wrote it.
C18_NoLostAppend ==
  [][\A i \in Slots :
       (Appends(i) /\ \A j \in Slots : inv[j].read # "rejected") =>
         Tail(Log') = SubSeq(Log, 1, Min(Len(Log), 9))]_vars

\* The step is a press of a mode button that passes toggleMode's guard.
ToggleAccepted == ToggleMode /\ ~BusyGuard(LatestRender)

\* C19: the displayed side changes only at the commit of a flip, to the
\* result of that flip, or to null at an accepted reset or an accepted mode
\* switch (so it is null until the first commit); it stays as it is from
\* step to step while a flip is in progress; and the commit sets it in the
\* very step that releases isFlipping and flipInProgressRef.
C19_SideChanges ==
  /\ [][side' # side =>
          \/ \E i \in Slots : Commits(i) /\ side' = inv[i].result
          \/ ResetAccepted /\ side' = NULL
          \/ ToggleAccepted /\ side' = NULL]_vars
  /\ [][(FlippingSlots # {} /\ FlippingSlots' # {}) => side' = side]_vars
  /\ [][\A i \in Slots :
          Commits(i) =>
            /\ isFlipping /\ flipInProgressRef
            /\ side' = inv[i].result
            /\ ~isFlipping' /\ ~flipInProgressRef']_vars

\* C19: a flip in Custom mode has just committed B: the displayed side is
\* its result, both flags are released, its entry is not stored yet.
C19_Witness ==
  \E i \in Slots :
    /\ inv[i].pc = "saveGet"
    /\ inv[i].result = "B"
    /\ side = "B"
    /\ ~isFlipping
    /\ ~flipInProgressRef
    /\ Log = <<>>

\* C20: the label a flip hands to saveFlipToHistory at its commit is the
\* label displayed at that moment, the one getDisplayLabel resolves from the
\* labels as they are at the commit, also when a label was edited after the
\* flip was requested.
C20_LabelAtCommit ==
  [][\A i \in Slots :
       (Commits(i) /\ inv[i].result \in {"A", "B"}) =>
         inv'[i].entry.side = GetDisplayLabel']_vars

\* ------------------------------------------------- the detector's samples

\* The samples of Samples, and samples whose x or y is NaN.
SensorSamples ==
  Samples \cup { Sample(Num(0), NaN, Num(0)), Sample(NaN, Num(9), Num(0)) }

SensorInit ==
  /\ InitApp
  /\ setupPc = "check"
  /\ storage = NoItem
  /\ callsLeft = MaxFlips
  /\ faultsLeft = MaxFaults

SensorNext ==
  \/ \E isAvailable \in BOOLEAN : SetupSettled(isAvailable)
  \/ \E s \in SensorSamples : AccelerometerListener(s)
  \/ \E i \in Slots : FlipStep(i)
  \/ ShakeTimeoutFired

\* The detector as the only trigger, fed with every kind of sample.
SensorSpec == SensorInit /\ [][SensorNext]_vars

\* Every component of the sample is a number other than NaN.
Finite(s) ==
  /\ s.x.type = "number" /\ ~s.x.nan
  /\ s.y.type = "number" /\ ~s.y.nan
  /\ s.z.type = "number" /\ ~s.z.nan

\* C21: a sample with a component that is not a finite number changes
\* nothing of the detector: prevYRef, lastFlickTimeRef and lastShakeTimeRef
\* stay, no flip is requested and no reset timer is set.
C21_BrokenSampleIsNoOp ==
  [][\A s \in SensorSamples :
       (AccelerometerListener(s) /\ ~Finite(s)) =>
         UNCHANGED <<prevYRef, lastFlickTimeRef, lastShakeTimeRef,
                     shakeTimeoutRef, inv, isFlipping, flipInProgressRef>>]_vars

\* The sample is a flick for the listener: its components are numbers and
\* its y passes the flick condition against the y before it.
FlickSample(s) ==
  /\ s.x.type = "number" /\ s.y.type = "number" /\ s.z.type = "number"
  /\ IsFlick(Minus(s.y, prevYRef))

\* C22: a sample the listener takes as a flick is not taken as a shake too:
\* lastShakeTimeRef stays and no reset timer is set by it, also when its
\* magnitude is above 1.5 and the last shake is more than 1000 ms ago.
C22_FlickIsNotShake ==
  [][\A s \in Samples :
       (AccelerometerListener(s) /\ FlickSample(s)) =>
         /\ lastFlickTimeRef' = now
         /\ UNCHANGED <<lastShakeTimeRef, shakeTimeoutRef>>]_vars

\* C22: the sample of 2 g along y has come as the first flick, with no shake
\* before it: it has started a flip, and no shake is recorded and no reset
\* timer is set.
C22_Witness ==
  /\ prevYRef = Num(20)
  /\ lastFlickTimeRef = now
  /\ lastShakeTimeRef = 0
  /\ shakeTimeoutRef = "null"
  /\ \E i \in Slots : inv[i].pc = "haptic"

\* C23: a sample that comes while a flip is in progress requests no flip and
\* leaves lastFlickTimeRef as it is, whatever its y; no call of flipCoin by
\* the listener is refused by flipCoin's guard; and lastFlickTimeRef changes
\* only in a step of the listener that starts a flip.
C23_FlickWhileFlipping ==
  /\ [][\A s \in Samples :
          (AccelerometerListener(s) /\ FlippingSlots # {}) =>
            UNCHANGED <<lastFlickTimeRef, inv, isFlipping,
                        flipInProgressRef>>]_vars
  /\ [][(\E s \in Samples : AccelerometerListener(s)) =>
          lastCall' # Refused("flipCoin")]_vars
  /\ [][lastFlickTimeRef' # lastFlickTimeRef =>
          /\ \E s \in Samples : AccelerometerListener(s)
          /\ FlippingSlots = {}
          /\ \E i \in Slots : inv[i].pc = "free" /\ inv'[i].pc = "haptic"]_vars

\* C23: a flick sample has come while a flip started by a tap is in
\* progress: its y is recorded, no flick is.
C23_Witness ==
  /\ prevYRef = Num(9)
  /\ lastFlickTimeRef = 0
  /\ lastCall = NoCall
  /\ \E i \in Slots : inv[i].pc = "anim"
  /\ \A i \in Slots : inv[i].pc \in {"anim", "free"}

\* --------------------------------------------- the clock runs: the shake

\* The delay of the timer a shake sets (setTimeout(..., 100)).
SHAKE_RESET_DELAY_MS == 100

\* The delay of the reset timer has passed.
ShakeTimerDue == now >= lastShakeTimeRef + SHAKE_RESET_DELAY_MS

\* The reset timer fires, on time.
TimedShakeTimeoutFired == ShakeTimerDue /\ ShakeTimeoutFired

\* The clock advances, not past the time the reset timer is to fire.
ShakeTick(t) ==
  /\ shakeTimeoutRef = "pending" =>
       StartTime + t <= lastShakeTimeRef + SHAKE_RESET_DELAY_MS
  /\ Tick(t)

\* Milliseconds after the start at which something happens here.
ShakeInstants == {100, 1000, 1001, 1101, 3150, 3200, 3250}

\* at rest, a shake
ShakeSamples == {Sample(Num(0), Num(0), Num(0)), Sample(Num(16), Num(0), Num(0))}

ShakeInit ==
  /\ InitApp
  /\ setupPc = "check"
  /\ storage = NoItem
  /\ callsLeft = MaxFlips
  /\ faultsLeft = MaxFaults

ShakeNext ==
  \/ \E isAvailable \in BOOLEAN : SetupSettled(isAvailable)
  \/ \E s \in ShakeSamples : AccelerometerListener(s)
  \/ TimedShakeTimeoutFired
  \/ TapFlip
  \/ \E i \in Slots : TimedFlipStep(i)
  \/ \E t \in ShakeInstants : ShakeTick(t)

\* Shakes and taps with the clock running; every timer fires when it is due.
ShakeSpec == ShakeInit /\ [][ShakeNext]_vars

C25_ShakeResetWhileFlipping ==
  [][(TimedShakeTimeoutFired /\ FlippingSlots # {}) =>
       /\ lastCall' = Refused("resetResult")
       /\ UNCHANGED <<side, isFlipping, flipInProgressRef, inv, storage>>]_vars

\* C25: a shake came 3150 ms after the start with no flip in progress, a
\* flip was requested 50 ms later, and the timer of the shake has fired
\* another 50 ms later, during the flip, and has been refused.
C25_Witness ==
  /\ now = StartTime + 3250
  /\ lastShakeTimeRef = StartTime + 3150
  /\ shakeTimeoutRef = "fired"
  /\ lastCall = Refused("resetResult")
  /\ \E i \in Slots : Flipping(i) /\ inv[i].startedAt = StartTime + 3200

\* Call i has committed and is storing its entry or awaiting the success
\* cue; the timestamp of its entry is the time of its commit.
Committed(i) == inv[i].pc \in {"saveGet", "saveSet", "notify"}

\* C29: when the reset timer of a shake clears the side a flip has
\* committed, the shake was recorded at or after that commit: a shake
\* sample that came while the flip was in progress does not clear its
\* result.
C29_ShakeBeforeCommit ==
  [][\A i \in Slots :
       (TimedShakeTimeoutFired /\ Committed(i) /\ side = inv[i].result
          /\ side' = NULL) =>
         lastShakeTimeRef >= inv[i].entry.timestamp]_vars

\* ------------------------------------------------- the component unmounts

UnmountInit ==
  /\ InitApp
  /\ setupPc = "check"
  /\ storage = NoItem
  /\ callsLeft = MaxFlips
  /\ faultsLeft = MaxFaults

UnmountNext ==
  \/ \E isAvailable \in BOOLEAN : SetupSettled(isAvailable)
  \/ \E s \in Samples : AccelerometerListener(s)
  \/ ShakeTimeoutFired
  \/ Cleanup
  \/ TapFlip
  \/ \E i \in Slots : FlipStep(i)

\* The detector, the Flip button and the unmounting of the component, which
\* can come at any moment.
UnmountSpec == UnmountInit /\ [][UnmountNext]_vars

\* The step starts a flip.
FlipStarts == \E i \in Slots : inv[i].pc = "free" /\ inv'[i].pc = "haptic"

\* C26: once the component is unmounted the listener is not subscribed and
\* no reset timer is pending, also when the availability check settles
\* after the unmounting; from then on no flip is started, the displayed
\* side is changed by nothing but the commit of a flip already running, and
\* the detector's references stay as they are.  And while the component is
\* mounted and the detector is off, a tap on Flip that passes the guard
\* starts a flip.
C26_NothingAfterUnmount ==
  /\ [](~isMounted => (setupPc # "subscribed" /\ shakeTimeoutRef # "pending"))
  /\ [][~isMounted =>
          /\ ~FlipStarts
          /\ side' # side => \E i \in Slots : Commits(i)
          /\ UNCHANGED <<prevYRef, lastFlickTimeRef, lastShakeTimeRef,
                         shakeTimeoutRef, isMounted>>]_vars
  /\ [][(TapFlip /\ setupPc = "off" /\ ~FlipGuard(LatestRender)) =>
          FlipStarts]_vars

\* C26: the component was unmounted after a shake had set its reset timer:
\* the timer reference is cleared, the listener is removed, and the result
\* a flip committed is still displayed.
C26_Witness ==
  /\ ~isMounted
  /\ setupPc = "off"
  /\ lastShakeTimeRef = now
  /\ shakeTimeoutRef = "null"
  /\ side # NULL

\* C27: isFlipping and flipInProgressRef are equal in every state, and they
\* are set exactly while a call of flipCoin is between its guard and its
\* commit or outer catch.
C27_FlagsAgree ==
  /\ isFlipping = flipInProgressRef
  /\ flipInProgressRef = (FlippingSlots # {})

\* C27: a flip has been ended by the outer catch, before any commit: both
\* flags are cleared and no call is in flight.
C27_Witness ==
  /\ ~isFlipping
  /\ ~flipInProgressRef
  /\ \A i \in Slots : inv[i].pc = "free"
  /\ callsLeft < MaxFlips
  /\ faultsLeft < MaxFaults
  /\ side = NULL
  /\ ~isCustomMode
  /\ shakeTimeoutRef = "null"

\* ------------------------------------------- the history panel and a flip

PanelInit ==
  /\ InitApp
  /\ setupPc = "off"
  /\ storage = PriorLog
  /\ callsLeft = MaxFlips
  /\ faultsLeft = MaxFaults

\* The panel is a Modal over the screen: the Flip button is reached while it
\* is closed.  The History button is enabled during a flip.
PanelNext ==
  \/ ~historyVisible /\ TapFlip
  \/ \E i \in Slots : FlipStep(i)
  \/ OpenHistory
  \/ CloseHistory
  \/ \E rejected \in BOOLEAN : LoadHistorySettled(rejected)
  \/ HandleClearHistory
  \/ \E rejected \in BOOLEAN : ClearHistorySettled(rejected)

\* A flip and the history panel side by side, from a log an earlier run left.
PanelSpec == PanelInit /\ [][PanelNext]_vars

\* The entries of a log, as a set.
Entries(log) == {log[k] : k \in 1..Len(log)}

\* C28: a call of saveFlipToHistory that returns true leaves behind its own
\* entry only entries that are stored at that moment: none that a
\* clearHistory has removed since the call read the log.
C28_ClearedStaysCleared ==
  [][\A i \in Slots :
       Appends(i) => Entries(Tail(Log')) \subseteq Entries(Log)]_vars

\* The step is handleClearHistory resuming after clearHistory has returned.
ClearReturns == clearPc = "remove" /\ clearPc' = "idle"

\* C30: clearHistory returns true or false and never throws.  When
\* removeItem rejects it returns false: the slot and the list the panel
\* shows stay as they are.  When removeItem resolves it returns true: the
\* slot is empty, the list of the panel is empty, and getHistory called next
\* returns the empty array.
C30_ClearReports ==
  /\ [][\A rejected \in BOOLEAN :
          ClearHistorySettled(rejected) =>
            /\ ClearHistory(rejected).success = ~rejected
            /\ IF rejected
               THEN storage' = storage /\ panelHistory' = panelHistory
               ELSE /\ storage' = NoItem
                    /\ panelHistory' = <<>>
                    /\ GetHistory(GetItem(FALSE))' =
                         [threw |-> FALSE, value |-> <<>>]]_vars
  /\ [][ClearReturns =>
          \E rejected \in BOOLEAN : ClearHistorySettled(rejected)]_vars

\* C30: a clear has failed: the panel still shows the entry it had loaded
\* and the slot still holds it.
C30_Witness ==
  /\ clearPc = "idle"
  /\ faultsLeft < MaxFaults
  /\ historyVisible
  /\ ~isLoading
  /\ panelHistory = PriorLog.val
  /\ storage = PriorLog
  /\ callsLeft = MaxFlips
  /\ \A i \in Slots : inv[i].pc = "free"
====
